---- MODULE Spec2Model ----
(***************************************************************************)
(* A model of LosTopos' tangent-space mesh smoother                         *)
(* (src/LosTopos/LosTopos3D/meshsmoother.cpp): one null_space_smoothing_pass *)
(* over a triangle mesh, with one step per null_space_smooth_vertex call.   *)
(*                                                                          *)
(* Numbers.  The code computes in doubles; the model computes in fixed      *)
(* point over the integers:                                                 *)
(*   - a position is an integer 3-vector (grid units);                      *)
(*   - a cached triangle area is stored DOUBLED (|cross|, not |cross|/2);   *)
(*   - a cached centroid is stored TRIPLED (p0+p1+p2, not (p0+p1+p2)/3);    *)
(*   - a unit vector is stored scaled by NScale;                            *)
(*   - a cosine is the pair (num, den2) standing for num/sqrt(den2), and an *)
(*     angle threshold is given by the signed square of its cosine;         *)
(*   - a quotient is rounded to the nearest grid unit (RoundDiv);           *)
(*   - NaN (0/0) is the value NaN; a comparison with it is false.           *)
(* Each scaling is a bijection on the values it encodes, so "exactly zero"  *)
(* and "unchanged" mean the same in the model as in the code.               *)
(***************************************************************************)
EXTENDS Integers, Sequences, FiniteSets, TLC

(***************************************************************************)
(* Bounds of the model                                                      *)
(***************************************************************************)
\* resolution of a unit vector (a unit normal is NScale long)
NScale == 10
\* largest number of collision candidates the broad phase returns for a move
MaxCand == 1
\* static proximity distances range over 0..MaxDist
MaxDist == 2

(***************************************************************************)
(* Vec3d / Vec3st: a function on the axes 0..2, as the code indexes it      *)
(***************************************************************************)
Axes == 0..2

Vec3d(x, y, z) == (0 :> x) @@ (1 :> y) @@ (2 :> z)

Zero3 == Vec3d(0, 0, 0)

\* the result of 0/0 in a double
NaN == -99999

NaN3 == Vec3d(NaN, NaN, NaN)

IsNaN3(a) == \E k \in Axes : a[k] = NaN

VAdd(a, b) == [k \in Axes |-> a[k] + b[k]]

VSub(a, b) == [k \in Axes |-> a[k] - b[k]]

VScale(s, a) == [k \in Axes |-> s * a[k]]

dot(a, b) == a[0] * b[0] + a[1] * b[1] + a[2] * b[2]

cross(a, b) ==
    Vec3d(a[1] * b[2] - a[2] * b[1],
          a[2] * b[0] - a[0] * b[2],
          a[0] * b[1] - a[1] * b[0])

\* mag(a)^2
mag2(a) == dot(a, a)

RECURSIVE Newton(_, _)
Newton(n, x) ==
    LET y == (x + (n \div x)) \div 2
    IN  IF y >= x THEN x ELSE Newton(n, y)

\* floor of the square root
ISqrt(n) == IF n <= 0 THEN 0 ELSE Newton(n, n)

Abs(x) == IF x < 0 THEN -x ELSE x

Sign(x) == IF x < 0 THEN -1 ELSE IF x > 0 THEN 1 ELSE 0

\* a / b rounded to the nearest integer, halves away from zero, b > 0
\* (-a / b rounds to the negative of what a / b rounds to, as on doubles)
RoundDiv(a, b) == Sign(a) * ((2 * Abs(a) + b) \div (2 * b))

VRoundDiv(a, b) == [k \in Axes |-> RoundDiv(a[k], b)]

RECURSIVE Gcd(_, _)
Gcd(a, b) == IF b = 0 THEN a ELSE Gcd(b, a % b)

\* normalized(a) = a / mag(a): NaN for the zero vector
normalized(a) ==
    LET m == ISqrt(mag2(a))
    IN  IF m = 0 THEN NaN3 ELSE [k \in Axes |-> RoundDiv(a[k] * NScale, m)]

\* a sequence s as a function on 0..Len(s)-1 (the code's indices start at 0)
Seq0(s) == [i \in 0 .. (Len(s) - 1) |-> s[i + 1]]

\* the elements of the finite set S of integers in increasing order
SortedSeq(S) ==
    [i \in 1 .. Cardinality(S) |->
        CHOOSE x \in S : Cardinality({y \in S : y < x}) = i - 1]

Range(s) == {s[i] : i \in DOMAIN s}

RECURSIVE SumOver(_, _)
\* the sum of f[x] over the sequence s of indices
SumOver(f, s) == IF s = << >> THEN 0 ELSE f[Head(s)] + SumOver(f, Tail(s))

RECURSIVE VSumOver(_, _)
VSumOver(f, s) == IF s = << >> THEN Zero3 ELSE VAdd(f[Head(s)], VSumOver(f, Tail(s)))


(***************************************************************************)
(* Cosines and angles.  A cosine c is the record [num, den] of its signed   *)
(* square, sign(c)*c^2 = num/den; den = 0 is NaN.  The angle acos(c) is     *)
(* carried by the same record: a larger angle is a smaller cosine.          *)
(***************************************************************************)
Cosine(n, d) == [num |-> n, den |-> d]

\* the cosine of the angle between the vectors a and b (NaN when one is zero)
CosineBetween(a, b) ==
    LET d == dot(a, b)
    IN  Cosine(Sign(d) * d * d, mag2(a) * mag2(b))

\* c < t on doubles: false when either is NaN
CosLess(c, t) == c.den > 0 /\ t.den > 0 /\ c.num * t.den < t.num * c.den

CosGreater(c, t) == CosLess(t, c)

\* cos(theta) for theta = pi - phi, given cos(phi)
CosSupplement(c) == Cosine(-c.num, c.den)

\* acos(dot(n0, n1)) of two cached unit normals, as the cosine it is the angle of
AcosDot(n0, n1) ==
    IF IsNaN3(n0) \/ IsNaN3(n1) THEN Cosine(0, 0)
    ELSE LET d == dot(n0, n1)
         IN  Cosine(Sign(d) * d * d, NScale * NScale * NScale * NScale)

\* the angle 0
AngleZero == Cosine(1, 1)

\* angle a > angle b
AngleGreater(a, b) == CosLess(a, b)

\* cos(20 deg)^2 = 0.8830...: the literal bounds of null_space_smooth_vertex
Cos20 == Cosine(883, 1000)

Cos160 == Cosine(-883, 1000)

\* trianglequality.h: the cosines of the three interior angles
triangle_angle_cosines(v0, v1, v2) ==
    Vec3d(CosineBetween(VSub(v1, v0), VSub(v2, v0)),
          CosineBetween(VSub(v0, v1), VSub(v2, v1)),
          CosineBetween(VSub(v0, v2), VSub(v1, v2)))

\* any of the three cosines below min_cos or above max_cos
AnyBadAnglesCos_Loose(cos_angles, min_cos, max_cos) ==
    \A k \in Axes : CosLess(cos_angles[k], min_cos) \/ CosGreater(cos_angles[k], max_cos)

AnyBadAnglesCos(cos_angles, min_cos, max_cos) ==
    \E k \in Axes : CosLess(cos_angles[k], min_cos) \/ CosGreater(cos_angles[k], max_cos)

(***************************************************************************)
(* NonDestructiveTriMesh: triangles, labels and the adjacency maps          *)
(***************************************************************************)
TriVerts(tri) == {tri[0], tri[1], tri[2]}

\* a deleted triangle is the placeholder with all three indices equal; it is in no map
TriIsDeleted(tri) == tri[0] = tri[1] /\ tri[1] = tri[2]

EdgePairs(tris) ==
    {e \in UNION {TriVerts(tris[t]) \X TriVerts(tris[t]) : t \in DOMAIN tris} :
        e[1] < e[2]}

\* the mesh with triangles tris (a sequence of Vec3st) and labels (Vec2i each)
MakeMesh(nv, tris, labels) ==
    LET T == Seq0(tris)
        live == {t \in DOMAIN T : ~TriIsDeleted(T[t])}
        pairs == EdgePairs([t \in live |-> T[t]])
        code(e) == e[1] * nv + e[2]
        order == SortedSeq({code(e) : e \in pairs})
        E == [i \in 0 .. (Len(order) - 1) |->
                (0 :> (order[i + 1] \div nv)) @@ (1 :> (order[i + 1] % nv))]
    IN  [ nv |-> nv,
          m_tris |-> T,
          m_labels |-> Seq0(labels),
          m_edges |-> E,
          m_vertex_to_triangle_map |->
              [v \in 0 .. (nv - 1) |-> SortedSeq({t \in live : v \in TriVerts(T[t])})],
          m_vertex_to_edge_map |->
              [v \in 0 .. (nv - 1) |->
                  SortedSeq({e \in DOMAIN E : E[e][0] = v \/ E[e][1] = v})],
          m_edge_to_triangle_map |->
              [e \in DOMAIN E |->
                  SortedSeq({t \in live : {E[e][0], E[e][1]} \subseteq TriVerts(T[t])})] ]

num_triangles(m) == Cardinality(DOMAIN m.m_tris)


(***************************************************************************)
(* The state                                                                *)
(***************************************************************************)
VARIABLES
    mesh,                \* m_surf.m_mesh: triangles, labels, adjacency maps
    deleted,             \* m_mesh.vertex_is_deleted, per vertex
    solid,               \* m_surf.vertex_is_solid_3, per vertex and axis
    cfg,                 \* the configuration the pass reads from m_surf
    position,            \* m_surf.get_position: the committed positions
    newposition,         \* m_surf.get_newposition: the staged positions
    triangle_areas,      \* the pass's caches, indexed by triangle
    triangle_normals,
    triangle_centroids,
    displacements,       \* the pass's displacement array, indexed by vertex
    smoothed_already,    \* aggressive mode's seen-set
    pc,                  \* where the pass is
    last,                \* the latest null_space_smooth_vertex call and its outcome
    ncalls,              \* how many null_space_smooth_vertex calls the pass made
    called,              \* how many of them were on each vertex
    notified,            \* how often m_mesheventcallback->smoothing was called
    position0            \* the committed positions when the pass started

vars ==
    << mesh, deleted, solid, cfg, position, newposition, triangle_areas,
       triangle_normals, triangle_centroids, displacements, smoothed_already,
       pc, last, ncalls, called, notified, position0 >>

Vertices == 0 .. (mesh.nv - 1)

Triangles == DOMAIN mesh.m_tris

(***************************************************************************)
(* DynamicSurface / SurfTrack queries                                       *)
(***************************************************************************)
TriCross(pos, tri) ==
    cross(VSub(pos[tri[1]], pos[tri[0]]), VSub(pos[tri[2]], pos[tri[0]]))

\* get_triangle_area: half the length of the cross product (stored doubled)
get_triangle_area(pos, tri) == ISqrt(mag2(TriCross(pos, tri)))

\* get_triangle_normal: the normalized cross product
get_triangle_normal(pos, tri) == normalized(TriCross(pos, tri))

\* (p0 + p1 + p2) / 3 (stored tripled)
TriCentroid(pos, tri) == VAdd(VAdd(pos[tri[0]], pos[tri[1]]), pos[tri[2]])

vertex_is_all_solid(v) == solid[v][0] /\ solid[v][1] /\ solid[v][2]

RECURSIVE LargestAngleWith(_, _, _, _)
\* the largest of `largest` and acos(dot(n0, n)) over the normals n of the triangle list
LargestAngleWith(n0, tri_list, normals, largest) ==
    IF tri_list = << >> THEN largest
    ELSE LET angle == AcosDot(n0, normals[Head(tri_list)])
         IN  LargestAngleWith(n0, Tail(tri_list), normals,
                              IF AngleGreater(angle, largest) THEN angle ELSE largest)

RECURSIVE LargestPairAngle(_, _, _)
\* the largest acos(dot(n_i, n_j)) over the pairs of the triangle list, from `largest`
LargestPairAngle(tri_list, normals, largest) ==
    IF Len(tri_list) < 2 THEN largest
    ELSE LargestPairAngle(Tail(tri_list), normals,
                          LargestAngleWith(normals[Head(tri_list)], Tail(tri_list),
                                           normals, largest))

\* SurfTrack::get_largest_dihedral: over all triangle pairs on the edge
get_largest_dihedral(edge, normals) ==
    LargestPairAngle(mesh.m_edge_to_triangle_map[edge], normals, AngleZero)

\* SurfTrack::edge_is_feature: the largest dihedral angle exceeds the feature angle
edge_is_feature(edge, normals) ==
    AngleGreater(get_largest_dihedral(edge, normals), cfg.m_feature_edge_angle)

\* SurfTrack::vertex_feature_edge_count
vertex_feature_edge_count(v, normals) ==
    Cardinality({e \in Range(mesh.m_vertex_to_edge_map[v]) : edge_is_feature(e, normals)})


(***************************************************************************)
(* Quadric Solver and the three displacement policies                       *)
(***************************************************************************)
\* G_EIGENVALUE_RANK_RATIO
RankRatio == [num |-> 3, den |-> 100]

\* Jiao's conditioning thresholds of the ridge direction: 0.7 and 0.00765
RidgeMinMid == [num |-> 7, den |-> 10]

RidgeMidMax == [num |-> 153, den |-> 20000]

\* sum of area_i * (centroid_i - position_v) over the triangle list
\* (areas doubled and centroids tripled: six times the code's sum)
AreaWeightedOffset(v, triangles, areas, centroids) ==
    VSumOver([t \in Triangles |->
                 VScale(areas[t], VSub(centroids[t], VScale(3, position[v])))],
             triangles)

\* sum_areas (doubled)
SumAreas(triangles, areas) == SumOver(areas, triangles)

\* t /= sum_areas: 0/0 is NaN
DivideBySumAreas(t, sum_areas) ==
    IF sum_areas = 0 THEN NaN3 ELSE VRoundDiv(t, 3 * sum_areas)

\* Basic laplacian smoothing (area-weighted)
get_smoothing_displacement_naive(v, triangles, areas, normals, centroids) ==
    DivideBySumAreas(AreaWeightedOffset(v, triangles, areas, centroids),
                     SumAreas(triangles, areas))

\* A = sum of N[i] * W[i] * N[i]^T
Quadric(triangles, areas, normals) ==
    [row \in Axes |-> [col \in Axes |->
        SumOver([t \in Triangles |-> normals[t][row] * areas[t] * normals[t][col]],
                triangles)]]

\* the triangle list has no NaN normal and its quadric is diagonal: the case in
\* which the eigenvectors are the coordinate axes
QuadricIsAxisAligned(triangles, areas, normals) ==
    /\ \A i \in DOMAIN triangles : ~IsNaN3(normals[triangles[i]])
    /\ \A row, col \in Axes :
          row # col => Quadric(triangles, areas, normals)[row][col] = 0

\* the quadric of the list has NaN entries: a listed normal is NaN, and
\* NaN * area * NaN is NaN whatever the area
QuadricIsNaN(triangles, normals) ==
    \E i \in DOMAIN triangles : IsNaN3(normals[triangles[i]])

\* es.info() after es.compute: the iteration does not converge on a matrix
\* with NaN entries, and leaves NaN eigenvalues
EigenInfo(triangles, normals) ==
    IF QuadricIsNaN(triangles, normals) THEN "NoConvergence" ELSE "Success"

UnitAxis(k) == [j \in Axes |-> IF j = k THEN 1 ELSE 0]

\* Eigen::SelfAdjointEigenSolver on a diagonal matrix: the eigenvalues in
\* ascending order, each with the coordinate axis that is its eigenvector
EigenSolver(A) ==
    LET order == SortedSeq({A[k][k] * 3 + k : k \in Axes})
    IN  [ eigenvalues |-> [i \in Axes |-> order[i + 1] \div 3],
          axis |-> [i \in Axes |-> order[i + 1] % 3] ]

Max3(f) == CHOOSE x \in {f[0], f[1], f[2]} : \A k \in Axes : f[k] <= x

\* null_space_projection * t, for a basis T of vectors of length `scale`,
\* divided by sum_areas
ProjectAndDivide(T, scale, t, sum_areas) ==
    IF sum_areas = 0 \/ \E i \in DOMAIN T : IsNaN3(T[i]) THEN NaN3
    ELSE LET Pt == [row \in Axes |->
                       SumOver([i \in DOMAIN T |-> T[i][row] * dot(T[i], t)],
                               SortedSeq(DOMAIN T))]
         IN  VRoundDiv(Pt, scale * scale * 3 * sum_areas)

\* the eigenvectors with eigenvalue below G_EIGENVALUE_RANK_RATIO * max_eig
NullSpaceBasis(es) ==
    [i \in {j \in Axes : es.eigenvalues[j] * RankRatio.den
                             < RankRatio.num * Max3(es.eigenvalues)} |->
        UnitAxis(es.axis[i])]

\* lines 469-476: T2.  es.info() is not looked at; of the NaN eigenvalues of a
\* failed decomposition none is below the rank threshold, and T2 is empty
NullSpaceOf(triangles, areas, normals) ==
    IF EigenInfo(triangles, normals) = "Success"
    THEN NullSpaceBasis(EigenSolver(Quadric(triangles, areas, normals)))
    ELSE << >>

\* The classic null-space approach
get_smoothing_displacement(v, triangles, areas, normals, centroids) ==
    ProjectAndDivide(NullSpaceOf(triangles, areas, normals), 1,
                     AreaWeightedOffset(v, triangles, areas, centroids),
                     SumAreas(triangles, areas))

Lcm(a, b) == (a * b) \div Gcd(a, b)

\* (b . e) / lambda of one eigenvector in lowest terms; 0 outside the range space
JiaoTerm(b, lambda, in_range) ==
    IF in_range /\ b # 0
    THEN [ p |-> b \div Gcd(Abs(b), lambda), q |-> lambda \div Gcd(Abs(b), lambda) ]
    ELSE [ p |-> 0, q |-> 1 ]

Gcd3(D) == Gcd(Gcd(Abs(D[0]), Abs(D[1])), Abs(D[2]))

\* the integer vector D in lowest terms (the zero vector stays zero)
Primitive(D) == IF Gcd3(D) = 0 THEN Zero3 ELSE [k \in Axes |-> D[k] \div Gcd3(D)]

CommonDenominator(f) == Lcm(Lcm(f[0].q, f[1].q), f[2].q)

\* the direction of the vector with the fractions f[k] as components
DirectionOf(f) == Primitive([k \in Axes |-> f[k].p * (CommonDenominator(f) \div f[k].q)])

\* the index of the eigenvector that is coordinate axis k
EigenIndex(es, k) == CHOOSE i \in Axes : es.axis[i] = k

\* es.eigenvalues()[i] > G_EIGENVALUE_RANK_RATIO * eig_max
InRangeSpace(es, i) ==
    es.eigenvalues[i] * RankRatio.den > RankRatio.num * Max3(es.eigenvalues)

\* the direction of Jiao_d = sum over the range space of (b . e_i) e_i / lambda_i,
\* as an integer vector in lowest terms (the zero vector when Jiao_d is zero)
JiaoDirection(es, Jiao_b) ==
    DirectionOf([k \in Axes |->
        JiaoTerm(Jiao_b[k], es.eigenvalues[EigenIndex(es, k)],
                 InRangeSpace(es, EigenIndex(es, k)))])

\* t /= sum_areas, the normal component left in
RemoveNormalComponent_Kept(D, t, sum_areas) == DivideBySumAreas(t, sum_areas)

\* t = t - normal * dot(normal, t), for normal = normalized(D), after t /= sum_areas
RemoveNormalComponent(D, t, sum_areas) ==
    IF sum_areas = 0 \/ D = Zero3 THEN NaN3
    ELSE VRoundDiv(VSub(VScale(mag2(D), t), VScale(dot(D, t), D)),
                   mag2(D) * 3 * sum_areas)

\* the feature edges among the incident edges of v, in map order
FeatureEdgesOf(v, normals) ==
    SelectSeq(mesh.m_vertex_to_edge_map[v], LAMBDA e : edge_is_feature(e, normals))

EdgeEnd(edge, k) == position[mesh.m_edges[edge][k]]

\* the ridge directions taken from the feature edges fe
RidgeDirections(fe, feature_edge_count) ==
    IF feature_edge_count = 1
    THEN [i \in DOMAIN fe |-> normalized(VSub(EdgeEnd(fe[i], 0), EdgeEnd(fe[i], 1)))]
    ELSE << normalized(VSub(VAdd(EdgeEnd(fe[1], 0), EdgeEnd(fe[1], 1)),
                            VAdd(EdgeEnd(fe[2], 0), EdgeEnd(fe[2], 1)))) >>

\* the ridge direction when the quadric's is ill-conditioned
RidgeFallback(v, feature_edge_count, normals) ==
    RidgeDirections(FeatureEdgesOf(v, normals), feature_edge_count)

\* the corner test of the dihedral-aware policy
IsCorner_Never(feature_edge_count) == FALSE

IsCorner(feature_edge_count) == feature_edge_count >= 3

\* Jiao's conditioning test of the ridge direction
WellConditioned(es) ==
    /\ es.eigenvalues[1] > 0
    /\ es.eigenvalues[0] * RidgeMinMid.den <= RidgeMinMid.num * es.eigenvalues[1]
    /\ es.eigenvalues[2] > 0
    /\ es.eigenvalues[1] * RidgeMidMax.den >= RidgeMidMax.num * es.eigenvalues[2]

\* Jiao_b = sum of area_i * normal_i
JiaoB(triangles, areas, normals) ==
    VSumOver([i \in Triangles |-> VScale(areas[i], normals[i])], triangles)

\* the three cases of the dihedral-aware policy: corner, smooth and ridge
DihedralCases(v, feature_edge_count, es, t, sum_areas, Jiao_b, normals) ==
    IF IsCorner(feature_edge_count) THEN Zero3
    ELSE IF feature_edge_count = 0
    THEN RemoveNormalComponent(JiaoDirection(es, Jiao_b), t, sum_areas)
    ELSE IF WellConditioned(es)
    THEN ProjectAndDivide(<< UnitAxis(es.axis[0]) >>, 1, t, sum_areas)
    ELSE ProjectAndDivide(RidgeFallback(v, feature_edge_count, normals),
                          NScale, t, sum_areas)

\* lines 516-581: past the corner test the decomposition failed, and the
\* policy dumps the incident triangles and stops at assert(0)
DihedralAborts(v, triangles, normals) ==
    /\ ~IsCorner(vertex_feature_edge_count(v, normals))
    /\ EigenInfo(triangles, normals) # "Success"

\* Using dihedral angle to decide feature (edges and corners)
\* (when the policy aborts no value is returned: NaN3 stands for none)
get_smoothing_displacement_dihedral(v, triangles, areas, normals, centroids) ==
    IF DihedralAborts(v, triangles, normals) THEN NaN3
    ELSE DihedralCases(v, vertex_feature_edge_count(v, normals),
                       EigenSolver(Quadric(triangles, areas, normals)),
                       AreaWeightedOffset(v, triangles, areas, centroids),
                       SumAreas(triangles, areas),
                       JiaoB(triangles, areas, normals), normals)


(***************************************************************************)
(* null_space_smooth_vertex: the per-vertex policy selection                *)
(***************************************************************************)
\* the incident triangles of v
IncidentTriangles(v) == mesh.m_vertex_to_triangle_map[v]

\* some incident edge has no incident triangle at all
HasBoundaryEdge_Empty(v) ==
    \E j \in DOMAIN mesh.m_vertex_to_edge_map[v] :
        Len(mesh.m_edge_to_triangle_map[mesh.m_vertex_to_edge_map[v][j]]) = 0

\* some incident edge has exactly one incident triangle
HasBoundaryEdge(v) ==
    \E j \in DOMAIN mesh.m_vertex_to_edge_map[v] :
        Len(mesh.m_edge_to_triangle_map[mesh.m_vertex_to_edge_map[v][j]]) = 1

TriangleCosines(pos, t) ==
    triangle_angle_cosines(pos[mesh.m_tris[t][0]], pos[mesh.m_tris[t][1]],
                           pos[mesh.m_tris[t][2]])

\* worth_smoothing, against the configured cosines instead of the literal ones
WorthSmoothing_Configured(v) ==
    \E i \in DOMAIN IncidentTriangles(v) :
        AnyBadAnglesCos(TriangleCosines(position, IncidentTriangles(v)[i]),
                        cfg.m_min_angle_cosine, cfg.m_max_angle_cosine)

\* worth_smoothing: some incident triangle has a cosine outside [cos 160, cos 20]
WorthSmoothing(v) ==
    \E i \in DOMAIN IncidentTriangles(v) :
        AnyBadAnglesCos(TriangleCosines(position, IncidentTriangles(v)[i]), Cos160, Cos20)

\* M_PI - angle < m_sharp_fold_regularization_threshold
SharperThanFoldThreshold(angle) ==
    AngleGreater(angle, CosSupplement(cfg.m_sharp_fold_regularization_threshold))

\* regularize_folded_feature
RegularizeFoldedFeature(v, normals) ==
    \E i \in DOMAIN mesh.m_vertex_to_edge_map[v] :
        SharperThanFoldThreshold(
            get_largest_dihedral(mesh.m_vertex_to_edge_map[v][i], normals))

TriangleHasLabel(t, region) ==
    mesh.m_labels[t][0] = region \/ mesh.m_labels[t][1] = region

\* incident_regions, in the order a std::set<int> is iterated
IncidentRegions(v) ==
    SortedSeq(UNION {{mesh.m_labels[t][0], mesh.m_labels[t][1]} :
                        t \in Range(IncidentTriangles(v))})

\* the normal n of triangle t as seen from the region
SeenFromRegion(n, t, region) ==
    IF IsNaN3(n) \/ mesh.m_labels[t][0] = region THEN n ELSE VScale(-1, n)

\* SurfTrack::get_triangle_normal_by_region: the normal seen from the region
get_triangle_normal_by_region(t, region) ==
    SeenFromRegion(get_triangle_normal(position, mesh.m_tris[t]), t, region)

\* the triangles of the edge that border the region
RegionTrianglesOfEdge(edge, region) ==
    SelectSeq(mesh.m_edge_to_triangle_map[edge], LAMBDA t : TriangleHasLabel(t, region))

\* the (edge, region) pairs the fold analysis walks, in loop order
FoldPairs(v) ==
    LET edges == SelectSeq(mesh.m_vertex_to_edge_map[v],
                           LAMBDA e : Len(mesh.m_edge_to_triangle_map[e]) <= 3)
        regions == IncidentRegions(v)
    IN  [k \in 1 .. (Len(edges) * Len(regions)) |->
            [ edge |-> edges[((k - 1) \div Len(regions)) + 1],
              region |-> regions[((k - 1) % Len(regions)) + 1] ]]

\* normal_pair holds two normals: with any other number of region triangles on
\* the edge an entry is read uninitialised, or written past the pair
NormalPairIsDefined(pair) == Len(RegionTrianglesOfEdge(pair.edge, pair.region)) = 2

\* acos(dot(normal_pair[0], normal_pair[1])) for the region triangles tl of an edge
NormalPairAngle(tl, region) ==
    AcosDot(get_triangle_normal_by_region(tl[1], region),
            get_triangle_normal_by_region(tl[2], region))

\* the dihedral angle of the pair; when the normal pair is not defined, what
\* `garbage` holds for the region
PairDihedralAngle(pair, garbage) ==
    IF NormalPairIsDefined(pair)
    THEN NormalPairAngle(RegionTrianglesOfEdge(pair.edge, pair.region), pair.region)
    ELSE garbage[pair.region]

\* dihedral_angle for every pair, in loop order
PairAngles(pairs, garbage) ==
    [k \in DOMAIN pairs |-> PairDihedralAngle(pairs[k], garbage)]

\* The loop of lines 309-341 assigns sharpest_region and sharp_angle at every
\* pair whose angle is above all the angles before it (and above 0; a NaN angle
\* compares false).  The last assignment is at the first pair whose angle no
\* other pair exceeds.
LastSharper(angles) ==
    CHOOSE k \in DOMAIN angles :
        /\ AngleGreater(angles[k], AngleZero)
        /\ \A j \in DOMAIN angles :
              /\ ~AngleGreater(angles[j], angles[k])
              /\ j < k => angles[j].den = 0 \/ AngleGreater(angles[k], angles[j])

\* "Find the sharpest one": sharpest_region (-1 when none) and sharp_angle
\* after the loop
FindSharpest(pairs, angles) ==
    IF \E k \in DOMAIN angles : AngleGreater(angles[k], AngleZero)
    THEN [sharpest_region |-> pairs[LastSharper(angles)].region,
          sharp_angle |-> angles[LastSharper(angles)]]
    ELSE [sharpest_region |-> -1, sharp_angle |-> AngleZero]

SharpestRegion(v, garbage) ==
    FindSharpest(FoldPairs(v), PairAngles(FoldPairs(v), garbage))

\* the region the fold policy smooths in, -1 when the vertex is not on a sharp fold
FoldRegion(v, normals, sharp) ==
    IF /\ RegularizeFoldedFeature(v, normals)
       /\ sharp.sharpest_region # -1
       /\ SharperThanFoldThreshold(sharp.sharp_angle)
    THEN sharp.sharpest_region
    ELSE -1

\* tri_set: the incident triangles that border the region
RegionTriangles(v, region) ==
    SelectSeq(IncidentTriangles(v), LAMBDA t : TriangleHasLabel(t, region))

\* a policy, the triangle list it is given and the displacement it computes
Policy(name, triangles, displacement) ==
    [ policy |-> name, triangles |-> triangles, displacement |-> displacement ]

\* lines 343-359: the fold policy within one region, or the dihedral-aware policy
StandardPolicy(v, areas, normals, centroids, region) ==
    IF region # -1
    THEN Policy("region", RegionTriangles(v, region),
                get_smoothing_displacement(v, RegionTriangles(v, region),
                                           areas, normals, centroids))
    ELSE Policy("dihedral", IncidentTriangles(v),
                get_smoothing_displacement_dihedral(v, IncidentTriangles(v),
                                                    areas, normals, centroids))

\* the policy the vertex gets and the displacement it computes
PolicyDisplacement(v, areas, normals, centroids, garbage) ==
    IF cfg.m_aggressive_mode
    THEN Policy("naive", IncidentTriangles(v),
                get_smoothing_displacement_naive(v, IncidentTriangles(v),
                                                 areas, normals, centroids))
    ELSE StandardPolicy(v, areas, normals, centroids,
                        FoldRegion(v, normals, SharpestRegion(v, garbage)))

\* the solidity mask as it would be with every solid axis zeroed
SolidMask_Zeroing(v, displacement) ==
    [k \in Axes |-> IF solid[v][k] THEN 0 ELSE displacement[k]]

\* if (solid[0]) displacement[0] = 0; if (solid[1]) displacement[1] = 1;
\* if (solid[2]) displacement[2] = 2;
SolidMask(v, displacement) ==
    Vec3d(IF solid[v][0] THEN 0 ELSE displacement[0],
          IF solid[v][1] THEN 1 ELSE displacement[1],
          IF solid[v][2] THEN 2 ELSE displacement[2])

\* the cap as a test against four times max_edge_length
HugeDisplacement_Quadruple(displacement) ==
    /\ ~IsNaN3(displacement)
    /\ mag2(displacement) > 16 * cfg.m_max_edge_length * cfg.m_max_edge_length

\* mag(displacement) > 2 * m_surf.m_max_edge_length
HugeDisplacement(displacement) ==
    /\ ~IsNaN3(displacement)
    /\ mag2(displacement) > 4 * cfg.m_max_edge_length * cfg.m_max_edge_length


(***************************************************************************)
(* Collision Guard                                                          *)
(***************************************************************************)
\* What the collision pipeline answers for one pseudo motion: any_collision's
\* verdict and, for each candidate gathered, the static proximity distance
\* check_edge_edge_proximity / check_point_triangle_proximity would compute.
\* A candidate is the Vec3st (a, b, kind): kind 1 is edge a against edge b,
\* kind 0 is triangle a against point b.
NoCandidates == [any_collision |-> FALSE, candidates |-> << >>]

\* the candidates looked at: the first incident triangle of v against point 0,
\* triangle 0 against the point v, the first incident edge of v against edge 0
CandidateUniverse(v) ==
    { Vec3d(IncidentTriangles(v)[1], 0, 0), Vec3d(0, v, 0),
      Vec3d(mesh.m_vertex_to_edge_map[v][1], 0, 1) }

\* the candidate passes the filters in front of its proximity test
ProximityTested(candidate) ==
    IF candidate[2] = 1
    THEN LET e0 == mesh.m_edges[candidate[0]]
             e1 == mesh.m_edges[candidate[1]]
         IN  /\ e0[0] # e0[1]
             /\ e1[0] # e1[1]
             /\ e0[0] # e1[0] /\ e0[0] # e1[1] /\ e0[1] # e1[0] /\ e0[1] # e1[1]
    ELSE LET tri == mesh.m_tris[candidate[0]]
             v == candidate[1]
         IN  /\ tri[0] # tri[1]
             /\ tri[0] # v /\ tri[1] # v /\ tri[2] # v

Measured(candidate) ==
    IF ProximityTested(candidate)
    THEN {[candidate |-> candidate, distance |-> d] : d \in 0 .. MaxDist}
    ELSE {[candidate |-> candidate, distance |-> 0]}

RECURSIVE CandidateLists(_, _)
CandidateLists(v, n) ==
    IF n = 0 THEN {<< >>}
    ELSE LET shorter == CandidateLists(v, n - 1)
             one == UNION {Measured(c) : c \in CandidateUniverse(v)}
         IN  shorter \cup {Append(s, m) : s \in {x \in shorter : Len(x) = n - 1}, m \in one}

GuardOracles(v) ==
    {[any_collision |-> TRUE, candidates |-> << >>]}
        \cup {[any_collision |-> FALSE, candidates |-> c] : c \in CandidateLists(v, MaxCand)}

\* the proximity loop with the distance test inverted
ProximityHit_Above(o) ==
    \E i \in DOMAIN o.candidates :
        /\ ProximityTested(o.candidates[i].candidate)
        /\ o.candidates[i].distance > cfg.m_improve_collision_epsilon

\* some tested candidate is closer than m_improve_collision_epsilon
ProximityHit(o) ==
    \E i \in DOMAIN o.candidates :
        /\ ProximityTested(o.candidates[i].candidate)
        /\ o.candidates[i].distance < cfg.m_improve_collision_epsilon

\* Check if the "pseudo motion" for the smoothed vertex causes a collision
smooth_vertex_pseudo_motion_introduces_collision(vertex, o) ==
    o.any_collision \/ ProximityHit(o)

(***************************************************************************)
(* null_space_smooth_vertex                                                 *)
(***************************************************************************)
\* the degenerate-triangle test of the cache code, on any repeated index
IsDegenerate_AnyPair(tri) == tri[0] = tri[1] \/ tri[1] = tri[2] \/ tri[0] = tri[2]

\* the degenerate-triangle test of the cache code, never true
IsDegenerate_Never(tri) == FALSE

\* tri[0] == tri[1]
IsDegenerate(tri) == tri[0] = tri[1]

CachedArea(pos, tri) == IF IsDegenerate(tri) THEN 0 ELSE get_triangle_area(pos, tri)

CachedNormal(pos, tri) == IF IsDegenerate(tri) THEN Zero3 ELSE get_triangle_normal(pos, tri)

CachedCentroid(pos, tri) == IF IsDegenerate(tri) THEN Zero3 ELSE TriCentroid(pos, tri)

\* the triangles whose cache entries a commit at v refreshes: none
RefreshedTriangles_None(v) == {}

\* the triangles whose cache entries a commit at v refreshes
RefreshedTriangles(v) == Range(IncidentTriangles(v))

\* the call returns before any position is staged
Stopped(outcome, displacement) ==
    [ outcome |-> outcome, policy |-> "none", triangles |-> << >>,
      eigen_info |-> "none", computed |-> Zero3, masked |-> Zero3,
      displacement |-> displacement ]

\* a cap that returns without zeroing the displacement
Capped_NotZeroed(pol, info, masked) ==
    [ outcome |-> IF HugeDisplacement(masked) THEN "huge" ELSE "move",
      policy |-> pol.policy, triangles |-> pol.triangles, eigen_info |-> info,
      computed |-> pol.displacement, masked |-> masked,
      displacement |-> masked ]

\* lines 373-377: the cap on the masked displacement
Capped(pol, info, masked) ==
    [ outcome |-> IF HugeDisplacement(masked) THEN "huge" ELSE "move",
      policy |-> pol.policy, triangles |-> pol.triangles, eigen_info |-> info,
      computed |-> pol.displacement, masked |-> masked,
      displacement |-> IF HugeDisplacement(masked) THEN Zero3 ELSE masked ]

\* the process stops inside the policy: nothing is written
Aborted(pol, info, displacement) ==
    [ outcome |-> "abort", policy |-> pol.policy, triangles |-> pol.triangles,
      eigen_info |-> info, computed |-> Zero3, masked |-> Zero3,
      displacement |-> displacement ]

\* es.info() after the policy's es.compute: "none" when the policy makes no
\* decomposition (the naive policy, and the dihedral-aware one at a corner)
DecompositionInfo(v, pol) ==
    IF \/ pol.policy = "naive"
       \/ pol.policy = "dihedral" /\ IsCorner(vertex_feature_edge_count(v, triangle_normals))
    THEN "none"
    ELSE EigenInfo(pol.triangles, triangle_normals)

\* lines 368-377: the solidity mask, then the cap, unless the policy aborted
MaskedAndCapped(v, pol) ==
    IF pol.policy = "dihedral" /\ DihedralAborts(v, pol.triangles, triangle_normals)
    THEN Aborted(pol, DecompositionInfo(v, pol), displacements[v])
    ELSE Capped(pol, DecompositionInfo(v, pol), SolidMask(v, pol.displacement))

\* lines 211-377 with the boundary test left out in aggressive mode
SmoothVertexCompute_AggressiveFirst(v, garbage) ==
    IF deleted[v] THEN Stopped("deleted", displacements[v])
    ELSE IF IncidentTriangles(v) = << >> THEN Stopped("isolated", Zero3)
    ELSE IF HasBoundaryEdge(v) /\ ~cfg.m_aggressive_mode THEN Stopped("boundary", Zero3)
    ELSE IF ~WorthSmoothing(v) THEN Stopped("good_angles", Zero3)
    ELSE MaskedAndCapped(v, PolicyDisplacement(v, triangle_areas, triangle_normals,
                                               triangle_centroids, garbage))

\* lines 211-377: up to the cap.  outcome "move" asks for the collision check
SmoothVertexCompute(v, garbage) ==
    IF deleted[v] THEN Stopped("deleted", displacements[v])
    ELSE IF IncidentTriangles(v) = << >> THEN Stopped("isolated", Zero3)
    ELSE IF HasBoundaryEdge(v) THEN Stopped("boundary", Zero3)
    ELSE IF ~WorthSmoothing(v) THEN Stopped("good_angles", Zero3)
    ELSE MaskedAndCapped(v, PolicyDisplacement(v, triangle_areas, triangle_normals,
                                               triangle_centroids, garbage))

\* the collision check is skipped
GuardRejects_Never(v, o) == FALSE

\* m_collision_safety and the pseudo motion introduces a collision
GuardRejects(v, o) ==
    cfg.m_collision_safety /\ smooth_vertex_pseudo_motion_introduces_collision(v, o)

\* the staged position after a rejected move, were it left as proposed
RevertedNewposition_Kept(v, newpos) == newpos

\* m_surf.set_newposition(v, m_surf.get_position(v))
RevertedNewposition(v, newpos) == position[v]

\* the caches after a commit: the entries of the triangles at v are recomputed
RefreshedAreas(v, committed) ==
    [t \in Triangles |->
        IF t \in RefreshedTriangles(v) THEN CachedArea(committed, mesh.m_tris[t])
        ELSE triangle_areas[t]]

RefreshedNormals(v, committed) ==
    [t \in Triangles |->
        IF t \in RefreshedTriangles(v) THEN CachedNormal(committed, mesh.m_tris[t])
        ELSE triangle_normals[t]]

RefreshedCentroids(v, committed) ==
    [t \in Triangles |->
        IF t \in RefreshedTriangles(v) THEN CachedCentroid(committed, mesh.m_tris[t])
        ELSE triangle_centroids[t]]

\* lines 211-377 returned, or the guard rejected the staged position newpos
Unmoved(v, outcome, displacement, staged) ==
    [ position |-> position, newposition |-> staged,
      triangle_areas |-> triangle_areas, triangle_normals |-> triangle_normals,
      triangle_centroids |-> triangle_centroids,
      displacement |-> displacement, outcome |-> outcome ]

\* a commit that stages the committed position of every vertex
Committed_AllStaged(v, displacement, committed) ==
    [ position |-> committed,
      newposition |-> committed,
      triangle_areas |-> RefreshedAreas(v, committed),
      triangle_normals |-> RefreshedNormals(v, committed),
      triangle_centroids |-> RefreshedCentroids(v, committed),
      displacement |-> displacement, outcome |-> "commit" ]

\* lines 403-421: commit the position and refresh the caches around v
Committed(v, displacement, committed) ==
    [ position |-> committed,
      newposition |-> [newposition EXCEPT ![v] = committed[v]],
      triangle_areas |-> RefreshedAreas(v, committed),
      triangle_normals |-> RefreshedNormals(v, committed),
      triangle_centroids |-> RefreshedCentroids(v, committed),
      displacement |-> displacement, outcome |-> "commit" ]

\* lines 381-421: stage the move, check it, then revert or commit and refresh
null_space_smooth_vertex(v, c, o) ==
    IF c.outcome # "move" THEN Unmoved(v, c.outcome, c.displacement, newposition)
    ELSE IF GuardRejects(v, o)
    THEN Unmoved(v, "collision", Zero3,
                 [newposition EXCEPT
                     ![v] = RevertedNewposition(v, VAdd(position[v], c.displacement))])
    ELSE Committed(v, c.displacement,
                   [position EXCEPT ![v] = VAdd(position[v], c.displacement)])


(***************************************************************************)
(* The meshes and configurations a pass is run on                           *)
(***************************************************************************)
\* A scene has three sets of positions: the regular ones, those with a sliver
\* (one vertex moved so that a triangle has an angle below 20 degrees) and the
\* collapsed ones (one vertex moved onto an edge, so that a triangle has area
\* zero and a NaN normal; the regular positions where the scene has none).
Label(a, b) == (0 :> a) @@ (1 :> b)

Free == Vec3d(FALSE, FALSE, FALSE)

Pinned(axes) == [k \in Axes |-> k \in axes]

\* A flat sheet in the plane x = 0: a 4 x 3 grid of vertices (vertex col + 4 row
\* at y = 4 col, z = 4 row), each grid square cut into two triangles; vertices 5
\* and 6 are interior.  Vertex 12 is in no triangle; triangle 12 is a deleted
\* triangle's placeholder.
FlatSquare(k) == (((k - 1) \div 2) % 3) + 4 * (((k - 1) \div 2) \div 3)

FlatTris ==
    [k \in 1 .. 12 |->
        IF k % 2 = 1
        THEN Vec3d(FlatSquare(k), FlatSquare(k) + 1, FlatSquare(k) + 5)
        ELSE Vec3d(FlatSquare(k), FlatSquare(k) + 5, FlatSquare(k) + 4)]

FlatPositions ==
    [v \in 0 .. 12 |-> IF v = 12 THEN Vec3d(0, 0, 12)
                       ELSE Vec3d(0, 4 * (v % 4), 4 * (v \div 4))]

FlatScene ==
    [ name |-> "flat",
      nv |-> 13,
      tris |-> FlatTris \o << Vec3d(0, 0, 0) >>,
      labels |-> [k \in 1 .. 13 |-> Label(1, 0)],
      positions |-> FlatPositions,
      sliver |-> [FlatPositions EXCEPT ![5] = Vec3d(0, 1, 4)],
      collapsed |-> FlatPositions,
      pins |-> { {}, {<<5, {0}>>}, {<<5, {1}>>}, {<<5, {2}>>}, {<<5, {1, 2}>>},
                 {<<5, {0, 1, 2}>>}, {<<6, {1}>>} },
      removable |-> {12} ]

\* The flat sheet with two more triangles: triangle 13 = (5, 5, 6) repeats its
\* first index and triangle 14 = (0, 1, 1) repeats its last.
DegenerateScene ==
    [ name |-> "degenerate",
      nv |-> 13,
      tris |-> FlatTris \o << Vec3d(0, 0, 0), Vec3d(5, 5, 6), Vec3d(0, 1, 1) >>,
      labels |-> [k \in 1 .. 15 |-> Label(1, 0)],
      positions |-> FlatPositions,
      sliver |-> [FlatPositions EXCEPT ![5] = Vec3d(0, 1, 4)],
      collapsed |-> FlatPositions,
      pins |-> { {}, {<<5, {1}>>} },
      removable |-> {} ]

\* A ridge: the wing z = 0 (vertices 4..7 at x = 4) and the wing x = 0 (vertices
\* 8..11 at z = 4) meet at a right angle along the y axis (vertices 0..3 at
\* y = 0, 4, 8, 12); vertices 1 and 2 are interior.
RidgeTris ==
    [k \in 1 .. 12 |->
        LET j == (k - 1) \div 4
        IN  CASE (k - 1) % 4 = 0 -> Vec3d(j, 4 + j, 5 + j)
              [] (k - 1) % 4 = 1 -> Vec3d(j, 5 + j, j + 1)
              [] (k - 1) % 4 = 2 -> Vec3d(j, j + 1, 9 + j)
              [] OTHER -> Vec3d(j, 9 + j, 8 + j)]

RidgePositions ==
    [v \in 0 .. 11 |->
        CASE v \div 4 = 0 -> Vec3d(0, 4 * v, 0)
          [] v \div 4 = 1 -> Vec3d(4, 4 * (v % 4), 0)
          [] OTHER -> Vec3d(0, 4 * (v % 4), 4)]

RidgeScene ==
    [ name |-> "ridge",
      nv |-> 12,
      tris |-> RidgeTris,
      labels |-> [k \in 1 .. 12 |-> Label(1, 0)],
      positions |-> RidgePositions,
      sliver |-> [RidgePositions EXCEPT ![1] = Vec3d(0, 1, 0)],
      collapsed |-> RidgePositions,
      pins |-> { {}, {<<1, {0}>>}, {<<1, {1}>>}, {<<2, {0, 1, 2}>>} },
      removable |-> {} ]

\* A roof: the triangles of the ridge, its two wings sloping down from the ridge
\* by 1 in 4, mirror images of each other.  The fold is flatter than the
\* feature angle, so that the ridge vertices have no feature edge.  The
\* deletion flags of vertex 0 (on the boundary) and vertex 1 (interior) may be
\* set while their triangles are still in the maps.
RoofPositions ==
    [v \in 0 .. 11 |->
        CASE v \div 4 = 0 -> Vec3d(0, 4 * v, 0)
          [] v \div 4 = 1 -> Vec3d(8, 4 * (v % 4), -2)
          [] OTHER -> Vec3d(-8, 4 * (v % 4), -2)]

RoofScene ==
    [ name |-> "roof",
      nv |-> 12,
      tris |-> RidgeTris,
      labels |-> [k \in 1 .. 12 |-> Label(1, 0)],
      positions |-> RoofPositions,
      sliver |-> [RoofPositions EXCEPT ![1] = Vec3d(0, 1, 0)],
      collapsed |-> RoofPositions,
      pins |-> { {}, {<<1, {2}>>} },
      removable |-> {0, 1} ]

\* A tee: the ridge with a third wing z = 0 on the other side of the y axis
\* (vertices 12..15 at x = -4, triangles 12..17), so that the edges along the y
\* axis have three triangles.  The three wings separate region 0 (z < 0) from
\* region 1 (x > 0, z > 0) and region 2 (x < 0, z > 0); a triangle's normal
\* points into the region of its first label.
TeeScene ==
    [ name |-> "tee",
      nv |-> 16,
      tris |-> RidgeTris \o
               [k \in 1 .. 6 |->
                   IF k % 2 = 1
                   THEN Vec3d((k - 1) \div 2, ((k - 1) \div 2) + 1, 13 + ((k - 1) \div 2))
                   ELSE Vec3d((k - 1) \div 2, 13 + ((k - 1) \div 2), 12 + ((k - 1) \div 2))],
      labels |-> [k \in 1 .. 18 |->
                     IF k > 12 THEN Label(2, 0)
                     ELSE IF (k - 1) % 4 < 2 THEN Label(1, 0) ELSE Label(1, 2)],
      positions |-> [v \in 0 .. 15 |->
                        IF v < 12 THEN RidgePositions[v] ELSE Vec3d(-4, 4 * (v % 4), 0)],
      sliver |-> [v \in 0 .. 15 |->
                     IF v = 1 THEN Vec3d(0, 1, 0)
                     ELSE IF v < 12 THEN RidgePositions[v] ELSE Vec3d(-4, 4 * (v % 4), 0)],
      collapsed |-> [v \in 0 .. 15 |->
                        IF v < 12 THEN RidgePositions[v] ELSE Vec3d(-4, 4 * (v % 4), 0)],
      pins |-> { {} },
      removable |-> {} ]

\* A corner: three quadrants of the coordinate planes meet at vertex 0, the
\* origin; vertices 1, 2, 3 are on the axes and 4, 5, 6 on the quadrants'
\* diagonals.  Vertex 0 is interior.
CornerTris ==
    << Vec3d(0, 1, 4), Vec3d(0, 4, 2), Vec3d(0, 2, 5),
       Vec3d(0, 5, 3), Vec3d(0, 3, 6), Vec3d(0, 6, 1) >>

CornerPositions ==
    Seq0(<< Vec3d(0, 0, 0), Vec3d(8, 0, 0), Vec3d(0, 8, 0), Vec3d(0, 0, 8),
            Vec3d(8, 8, 0), Vec3d(0, 8, 8), Vec3d(8, 0, 8) >>)

CornerScene ==
    [ name |-> "corner",
      nv |-> 7,
      tris |-> CornerTris,
      labels |-> [k \in 1 .. 6 |-> Label(1, 0)],
      positions |-> CornerPositions,
      sliver |-> [CornerPositions EXCEPT ![4] = Vec3d(8, 1, 0)],
      collapsed |-> [CornerPositions EXCEPT ![4] = Vec3d(4, 0, 0)],
      pins |-> { {}, {<<0, {0}>>}, {<<0, {1}>>} },
      removable |-> {} ]

Scenes == {FlatScene, DegenerateScene, RidgeScene, RoofScene, TeeScene, CornerScene}

\* angle thresholds, as cosines: 10, 30, 50, 100 and 120 degrees
Cos10 == Cosine(970, 1000)

Cos30 == Cosine(750, 1000)

Cos50 == Cosine(413, 1000)

Cos100 == Cosine(-30, 1000)

Cos120 == Cosine(-250, 1000)

Configurations ==
    {[ m_aggressive_mode |-> a,
       m_collision_safety |-> c,
       m_max_edge_length |-> l,
       m_min_angle_cosine |-> s[1],
       m_max_angle_cosine |-> s[2],
       m_sharp_fold_regularization_threshold |-> f,
       m_feature_edge_angle |-> Cos30,
       m_improve_collision_epsilon |-> 1,
       m_mesheventcallback |-> o ] :
        a \in BOOLEAN, c \in BOOLEAN, o \in BOOLEAN, l \in {1, 8},
        s \in {<<Cos160, Cos20>>, <<Cos120, Cos50>>}, f \in {Cos10, Cos100}}


(***************************************************************************)
(* Init: a mesh, a configuration and the state in front of a pass           *)
(***************************************************************************)
NoCall ==
    [ v |-> 0, outcome |-> "none", policy |-> "none", triangles |-> << >>,
      eigen_info |-> "none",
      computed |-> Zero3, masked |-> Zero3, feature_edge_count |-> 0, guard_ran |-> FALSE,
      any_collision |-> FALSE, closest |-> MaxDist + 1 ]

\* undefined until the pass builds the caches
NoCache == << >>

Init ==
    \E scene \in Scenes, stale \in BOOLEAN :
      \E pins \in scene.pins, gone \in SUBSET scene.removable, config \in Configurations :
        /\ mesh = MakeMesh(scene.nv, scene.tris, scene.labels)
        /\ deleted = [v \in 0 .. (scene.nv - 1) |-> v \in gone]
        /\ solid = [v \in 0 .. (scene.nv - 1) |->
                       IF \E pin \in pins : pin[1] = v
                       THEN Pinned((CHOOSE pin \in pins : pin[1] = v)[2])
                       ELSE Free]
        /\ cfg = config
        \* the scan cosines are read in aggressive mode only, the fold threshold
        \* in standard mode only
        /\ config.m_aggressive_mode => config.m_sharp_fold_regularization_threshold = Cos10
        /\ ~config.m_aggressive_mode => config.m_max_angle_cosine = Cos20
        /\ position \in {scene.positions, scene.sliver, scene.collapsed}
        /\ newposition =
              IF stale
              THEN [position EXCEPT ![scene.nv - 1] = VAdd(@, Vec3d(1, 0, 0))]
              ELSE position
        /\ position0 = position
        /\ triangle_areas = NoCache
        /\ triangle_normals = NoCache
        /\ triangle_centroids = NoCache
        /\ displacements = NoCache
        /\ smoothed_already = NoCache
        /\ pc = [phase |-> "start", i |-> 0, j |-> 0, scanned |-> FALSE]
        /\ last = NoCall
        /\ ncalls = 0
        /\ called = [v \in 0 .. (scene.nv - 1) |-> 0]
        /\ notified = 0

(***************************************************************************)
(* null_space_smoothing_pass                                                *)
(***************************************************************************)
\* lines 865-890: build the caches, zero the displacements
BuildCaches ==
    /\ pc.phase = "start"
    /\ triangle_areas' = [t \in Triangles |-> CachedArea(position, mesh.m_tris[t])]
    /\ triangle_normals' = [t \in Triangles |-> CachedNormal(position, mesh.m_tris[t])]
    /\ triangle_centroids' = [t \in Triangles |-> CachedCentroid(position, mesh.m_tris[t])]
    /\ displacements' = [v \in Vertices |-> Zero3]
    /\ smoothed_already' = [v \in Vertices |-> FALSE]
    /\ pc' = [pc EXCEPT !.phase = IF cfg.m_aggressive_mode THEN "aggressive" ELSE "standard"]
    /\ UNCHANGED << mesh, deleted, solid, cfg, position, newposition, last, ncalls,
                    called, notified, position0 >>

\* the fold analysis of v reads an undefined normal pair
ReadsGarbage(v) ==
    /\ ~deleted[v]
    /\ IncidentTriangles(v) # << >>
    /\ ~HasBoundaryEdge(v)
    /\ WorthSmoothing(v)
    /\ ~cfg.m_aggressive_mode
    /\ RegularizeFoldedFeature(v, triangle_normals)
    /\ \E pair \in Range(FoldPairs(v)) : ~NormalPairIsDefined(pair)

\* what an undefined normal pair can give for the dihedral angle
GarbageAngles == {AngleZero, Cosine(0, 1), Cosine(-1, 1), Cosine(0, 0)}

\* the dihedral angles the fold analysis of v can read from an undefined pair,
\* for each region at v
GarbageFor(v) ==
    IF ReadsGarbage(v) THEN [Range(IncidentRegions(v)) -> GarbageAngles]
    ELSE {[region \in Range(IncidentRegions(v)) |-> AngleZero]}

\* lines 384-387: the guard runs on a move when collision safety is on
GuardRuns(c) == c.outcome = "move" /\ cfg.m_collision_safety

\* what the collision pipeline can answer when the guard runs
OraclesFor(v, c) == IF GuardRuns(c) THEN GuardOracles(v) ELSE {NoCandidates}

\* the smallest distance measured for a candidate that was proximity-tested
\* (MaxDist + 1 when none was)
Closest(o) ==
    LET measured == {o.candidates[i].distance :
                        i \in {j \in DOMAIN o.candidates :
                                  ProximityTested(o.candidates[j].candidate)}}
    IN  IF measured = {} THEN MaxDist + 1
        ELSE CHOOSE d \in measured : \A e \in measured : d <= e

\* the record of one call: the vertex, what was computed, what the collision
\* pipeline answered and how the call ended
CallRecord(v, c, o, r) ==
    [ v |-> v, outcome |-> r.outcome, policy |-> c.policy, triangles |-> c.triangles,
      eigen_info |-> c.eigen_info, computed |-> c.computed, masked |-> c.masked,
      feature_edge_count |-> vertex_feature_edge_count(v, triangle_normals),
      guard_ran |-> GuardRuns(c), any_collision |-> o.any_collision,
      closest |-> Closest(o) ]

\* one call null_space_smooth_vertex(v, ..., displacements[v])
Call(v) ==
    \E garbage \in GarbageFor(v) :
      \E c \in {SmoothVertexCompute(v, garbage)} :
        \E o \in OraclesFor(v, c) :
          \E r \in {null_space_smooth_vertex(v, c, o)} :
            /\ position' = r.position
            /\ newposition' = r.newposition
            /\ triangle_areas' = r.triangle_areas
            /\ triangle_normals' = r.triangle_normals
            /\ triangle_centroids' = r.triangle_centroids
            /\ displacements' = [displacements EXCEPT ![v] = r.displacement]
            /\ last' = CallRecord(v, c, o, r)
            /\ ncalls' = ncalls + 1
            /\ called' = [called EXCEPT ![v] = @ + 1]

\* where the pass is after the call: at `next`, or nowhere when the call
\* stopped the process
AfterCall(next) ==
    IF last'.outcome = "abort" THEN [pc EXCEPT !.phase = "aborted"] ELSE next

\* lines 896-903 without the test of line 898
StandardSmooth_EveryVertex ==
    /\ pc.phase = "standard"
    /\ pc.i < mesh.nv
    /\ Call(pc.i)
    /\ pc' = AfterCall([pc EXCEPT !.i = pc.i + 1])
    /\ UNCHANGED << mesh, deleted, solid, cfg, smoothed_already, notified, position0 >>

\* lines 896-903, a vertex that is not all solid
StandardSmooth ==
    /\ pc.phase = "standard"
    /\ pc.i < mesh.nv
    /\ ~vertex_is_all_solid(pc.i)
    /\ Call(pc.i)
    /\ pc' = AfterCall([pc EXCEPT !.i = pc.i + 1])
    /\ UNCHANGED << mesh, deleted, solid, cfg, smoothed_already, notified, position0 >>

\* lines 896-903, an all-solid vertex
StandardSkip ==
    /\ pc.phase = "standard"
    /\ pc.i < mesh.nv
    /\ vertex_is_all_solid(pc.i)
    /\ pc' = [pc EXCEPT !.i = pc.i + 1]
    /\ UNCHANGED << mesh, deleted, solid, cfg, position, newposition, triangle_areas,
                    triangle_normals, triangle_centroids, displacements,
                    smoothed_already, last, ncalls, called, notified, position0 >>

\* the triangle scan with the literal cosines of null_space_smooth_vertex
ScanFindsBadAngle_Literal(t) ==
    AnyBadAnglesCos(TriangleCosines(position, t), Cos160, Cos20)

\* lines 911-924: any_bad_angles_cos of triangle t, against the configured cosines
ScanFindsBadAngle(t) ==
    AnyBadAnglesCos(TriangleCosines(position, t),
                    cfg.m_min_angle_cosine, cfg.m_max_angle_cosine)

\* the pass moves on to the next triangle
NextTriangle == [pc EXCEPT !.i = pc.i + 1, !.j = 0, !.scanned = FALSE]

\* the pass moves on to the next vertex of the triangle
NextCorner == IF pc.j = 2 THEN NextTriangle ELSE [pc EXCEPT !.j = pc.j + 1]

\* lines 909-926: look at triangle pc.i
AggressiveScan ==
    /\ pc.phase = "aggressive"
    /\ pc.i < num_triangles(mesh)
    /\ ~pc.scanned
    /\ pc' = IF ScanFindsBadAngle(pc.i) THEN [pc EXCEPT !.scanned = TRUE] ELSE NextTriangle
    /\ UNCHANGED << mesh, deleted, solid, cfg, position, newposition, triangle_areas,
                    triangle_normals, triangle_centroids, displacements,
                    smoothed_already, last, ncalls, called, notified, position0 >>

\* the vertex of the bad triangle is smoothed whether seen before or not
Eligible_NoSeenSet(v) == ~vertex_is_all_solid(v)

\* line 931
Eligible(v) == ~vertex_is_all_solid(v) /\ ~smoothed_already[v]

\* lines 929-937, a vertex of a bad triangle that is smoothed
AggressiveSmooth ==
    /\ pc.phase = "aggressive"
    /\ pc.i < num_triangles(mesh)
    /\ pc.scanned
    /\ Eligible(mesh.m_tris[pc.i][pc.j])
    /\ Call(mesh.m_tris[pc.i][pc.j])
    /\ smoothed_already' = [smoothed_already EXCEPT ![mesh.m_tris[pc.i][pc.j]] = TRUE]
    /\ pc' = AfterCall(NextCorner)
    /\ UNCHANGED << mesh, deleted, solid, cfg, notified, position0 >>

\* lines 929-937, a vertex of a bad triangle that is passed over
AggressiveSkip ==
    /\ pc.phase = "aggressive"
    /\ pc.i < num_triangles(mesh)
    /\ pc.scanned
    /\ ~Eligible(mesh.m_tris[pc.i][pc.j])
    /\ pc' = NextCorner
    /\ UNCHANGED << mesh, deleted, solid, cfg, position, newposition, triangle_areas,
                    triangle_normals, triangle_centroids, displacements,
                    smoothed_already, last, ncalls, called, notified, position0 >>

\* lines 1028-1031: notify the observer and return true
Finish ==
    /\ \/ pc.phase = "standard" /\ pc.i = mesh.nv
       \/ pc.phase = "aggressive" /\ pc.i = num_triangles(mesh)
    /\ notified' = IF cfg.m_mesheventcallback THEN notified + 1 ELSE notified
    /\ pc' = [pc EXCEPT !.phase = "returned"]
    /\ UNCHANGED << mesh, deleted, solid, cfg, position, newposition, triangle_areas,
                    triangle_normals, triangle_centroids, displacements,
                    smoothed_already, last, ncalls, called, position0 >>

Next ==
    \/ BuildCaches
    \/ StandardSmooth
    \/ StandardSkip
    \/ AggressiveScan
    \/ AggressiveSmooth
    \/ AggressiveSkip
    \/ Finish

Spec == Init /\ [][Next]_vars


(***************************************************************************)
(* Properties.  A step is a call on v when it adds one to ncalls and        *)
(* records v; `last` holds what that call computed and how it ended.        *)
(***************************************************************************)
\* the step is one call null_space_smooth_vertex(v)
CallOn(v) == ncalls' = ncalls + 1 /\ last'.v = v

CachesUnchanged ==
    /\ triangle_areas' = triangle_areas
    /\ triangle_normals' = triangle_normals
    /\ triangle_centroids' = triangle_centroids

\* The eigen-decomposition of the model is exact: whenever a quadric policy
\* runs, either an incident normal is NaN and the decomposition fails, or the
\* quadric is diagonal, so that its eigenvectors are the coordinate axes.
EigenvectorsAreAxes ==
    [][\A v \in Vertices :
          CallOn(v) /\ last'.policy \in {"region", "dihedral"} =>
              \/ QuadricIsNaN(IncidentTriangles(v), triangle_normals)
              \/ QuadricIsAxisAligned(IncidentTriangles(v), triangle_areas,
                                      triangle_normals)]_vars

\* No policy computes a NaN displacement on the meshes of the model, and no
\* NaN reaches a position.
NoNaNComputed ==
    /\ ~IsNaN3(last.computed)
    /\ \A v \in Vertices : ~IsNaN3(position[v]) /\ ~IsNaN3(newposition[v])

\* the guard of the recorded call found no collision and no tested candidate
\* closer than the collision epsilon
GuardPassed(call) ==
    /\ call.guard_ran
    /\ ~call.any_collision
    /\ call.closest >= cfg.m_improve_collision_epsilon

\* the guard of the recorded call found a collision or a tested candidate
\* closer than the collision epsilon
GuardFailed(call) ==
    /\ call.guard_ran
    /\ call.any_collision \/ call.closest < cfg.m_improve_collision_epsilon

\* C1, as stated: a committed position changes only if the Collision Guard
\* evaluated the proposed position and found neither a collision nor a
\* candidate whose proximity distance is below the collision epsilon.
CommitOnlyAfterGuard_AsStated ==
    [][position' # position => GuardPassed(last')]_vars

\* C1, amended: when collision safety is enabled, a committed position changes
\* only if the Collision Guard evaluated the proposed position and found
\* neither a collision nor a proximity-tested candidate closer than the
\* collision epsilon.
CommitOnlyAfterGuard ==
    [][position' # position /\ cfg.m_collision_safety => GuardPassed(last')]_vars

\* a guarded call measured a candidate and committed a move
CommitOnlyAfterGuard_Witness ==
    /\ last.outcome = "commit"
    /\ last.guard_ran
    /\ last.closest <= MaxDist
    /\ position[last.v] # position0[last.v]

\* C2: when the guard reports a collision or a proximity below epsilon for v,
\* the call sets v's staged position back to v's committed position, reports
\* the zero displacement and leaves the committed positions and every cache
\* entry as they were; and no call of a pass is a second call on its vertex,
\* so the move is not retried.
RejectionRollsBack ==
    [][\A v \in Vertices :
          CallOn(v) =>
            /\ called'[v] = 1
            /\ GuardFailed(last') =>
                 /\ newposition' = [newposition EXCEPT ![v] = position[v]]
                 /\ displacements'[v] = Zero3
                 /\ position' = position
                 /\ CachesUnchanged]_vars

\* a proposed move away from the committed position was rejected, while the
\* staged position of another vertex differs from its committed one
RejectionRollsBack_Witness ==
    /\ last.outcome = "collision"
    /\ last.masked # Zero3
    /\ newposition[last.v] = position[last.v]
    /\ newposition # position

\* v has an incident edge with exactly one incident triangle
OnBoundary(v) ==
    \E u \in Vertices \ {v} :
        Cardinality({t \in Triangles :
                        /\ ~TriIsDeleted(mesh.m_tris[t])
                        /\ {u, v} \subseteq TriVerts(mesh.m_tris[t])}) = 1

\* the cosine is a number in [cos 160, cos 20]
WithinLiteralBounds(c) ==
    /\ c.den > 0
    /\ c.num * Cos160.den >= Cos160.num * c.den
    /\ c.num * Cos20.den <= Cos20.num * c.den

\* the cosine is a number below cos 160 or above cos 20
OutsideLiteralBounds(c) ==
    /\ c.den > 0
    /\ \/ c.num * Cos160.den < Cos160.num * c.den
       \/ c.num * Cos20.den > Cos20.num * c.den

\* the triangles v is a vertex of
TrianglesAt(v) ==
    {t \in Triangles : ~TriIsDeleted(mesh.m_tris[t]) /\ v \in TriVerts(mesh.m_tris[t])}

\* some triangle at v has an interior angle outside [20, 160] degrees
HasBadAngle(v, pos) ==
    \E t \in TrianglesAt(v), k \in Axes : OutsideLiteralBounds(TriangleCosines(pos, t)[k])

\* C3: for every non-deleted vertex v with a boundary edge the call reports the
\* zero displacement and leaves the positions unchanged, in either mode and
\* whatever v's angle quality, fold state or solidity.
BoundaryVertexStays ==
    [][\A v \in Vertices :
          CallOn(v) /\ ~deleted[v] /\ OnBoundary(v) =>
              displacements'[v] = Zero3 /\ position' = position]_vars

\* a call on a boundary vertex that has a bad angle
BoundaryVertexStays_Witness ==
    /\ last.outcome = "boundary"
    /\ OnBoundary(last.v)
    /\ HasBadAngle(last.v, position)
    /\ ncalls > 0

\* the reported displacement of the call on v is zero and no position changed
ZeroAndUnmoved(v) == displacements'[v] = Zero3 /\ position' = position

SolidAxesStay ==
    [][\A v \in Vertices :
          CallOn(v) /\ last'.policy # "none" =>
            \A k \in Axes :
                solid[v][k] => last'.masked[k] = 0 /\ position'[v][k] = position[v][k]]_vars

\* the masked displacement of the recorded call is longer than 2 * max_edge_length
LongerThanTwiceMaxEdge(call) ==
    /\ call.policy # "none"
    /\ mag2(call.masked) > 4 * cfg.m_max_edge_length * cfg.m_max_edge_length

\* C6: if the magnitude of the masked displacement is strictly greater than
\* 2 * max_edge_length, the call reports the zero displacement (not a shorter
\* one) and leaves the committed and the staged positions and every cache entry
\* unchanged.
HugeDisplacementDiscarded ==
    [][\A v \in Vertices :
          CallOn(v) /\ LongerThanTwiceMaxEdge(last') =>
            /\ displacements'[v] = Zero3
            /\ position' = position
            /\ newposition' = newposition
            /\ CachesUnchanged]_vars

\* a call whose masked displacement was longer than the bound
HugeDisplacementDiscarded_Witness ==
    /\ LongerThanTwiceMaxEdge(last)
    /\ last.outcome = "huge"
    /\ last.masked # Zero3

\* every interior-angle cosine of every triangle at v is in [cos 160, cos 20]
AllAnglesGood(v, pos) ==
    \A t \in TrianglesAt(v), k \in Axes : WithinLiteralBounds(TriangleCosines(pos, t)[k])

\* C7: if every interior-angle cosine of every triangle incident to v lies in
\* [cos 160, cos 20], the call on v reports the zero displacement and changes no
\* committed position, no staged position and no cache entry, in either mode.
GoodAnglesEarlyExit ==
    [][\A v \in Vertices :
          CallOn(v) /\ AllAnglesGood(v, position) =>
            /\ displacements'[v] = Zero3
            /\ position' = position
            /\ newposition' = newposition
            /\ CachesUnchanged]_vars

\* an aggressive-mode call on an interior vertex whose angles are all good
GoodAnglesEarlyExit_Witness ==
    /\ last.outcome = "good_angles"
    /\ cfg.m_aggressive_mode
    /\ TrianglesAt(last.v) # {}
    /\ AllAnglesGood(last.v, position)

\* no triangle of the mesh has an interior-angle cosine outside [cos 160, cos 20]
NoBadAngle(pos) ==
    \A t \in Triangles, k \in Axes : ~OutsideLiteralBounds(TriangleCosines(pos, t)[k])

\* C8: a pass on a mesh in which no triangle has an interior-angle cosine
\* outside [cos 160, cos 20] leaves every position as it was, in either mode and
\* whatever the scan thresholds of aggressive mode.
PassKeepsGoodMesh == NoBadAngle(position0) => position = position0

\* an aggressive pass with scan thresholds tighter than the literal ones made
\* calls on a mesh without a bad angle, and returned
PassKeepsGoodMesh_Witness ==
    /\ pc.phase = "returned"
    /\ NoBadAngle(position0)
    /\ cfg.m_aggressive_mode
    /\ cfg.m_max_angle_cosine # Cos20
    /\ \E v \in Vertices : called[v] > 0 /\ ~OnBoundary(v)

\* the three vertex indices of the triangle are distinct
AllDistinct(tri) == tri[0] # tri[1] /\ tri[1] # tri[2] /\ tri[0] # tri[2]

\* C9: after the cache build and after every call, the cached area, normal and
\* centroid of every non-degenerate triangle equal the values recomputed from
\* the committed positions.
CachesMatchPositions ==
    pc.phase # "start" =>
        \A t \in Triangles :
            AllDistinct(mesh.m_tris[t]) =>
                /\ triangle_areas[t] = get_triangle_area(position, mesh.m_tris[t])
                /\ triangle_normals[t] = get_triangle_normal(position, mesh.m_tris[t])
                /\ triangle_centroids[t] = TriCentroid(position, mesh.m_tris[t])

\* a call committed a move that changed the area of a triangle
CachesMatchPositions_Witness ==
    /\ last.outcome = "commit"
    /\ position[last.v] # position0[last.v]
    /\ \E t \in TrianglesAt(last.v) :
          get_triangle_area(position, mesh.m_tris[t])
              # get_triangle_area(position0, mesh.m_tris[t])

\* C10: for any triangle with a repeated vertex index the cached area, normal
\* and centroid are zero after the cache build and after every refresh.
RepeatedIndexCachedZero ==
    pc.phase # "start" =>
        \A t \in Triangles :
            ~AllDistinct(mesh.m_tris[t]) =>
                /\ triangle_areas[t] = 0
                /\ triangle_normals[t] = Zero3
                /\ triangle_centroids[t] = Zero3

\* the pass has neither returned nor stopped the process
Running == pc.phase \notin {"returned", "aborted"}

\* the places a pass can be at
PcSpace ==
    [ phase : {"start", "standard", "aggressive", "returned", "aborted"},
      i : 0 .. (mesh.nv + num_triangles(mesh)), j : Axes, scanned : BOOLEAN ]

\* a running pass moves on
Advance == Running /\ pc' \in PcSpace /\ pc' # pc

\* The pass is one synchronous loop on one thread: while it runs, it moves on.
\* (Every step of Next moves pc, and NeverStuck shows that a running pass has
\* a step whose guard holds.)
LiveSpec == Spec /\ WF_pc(Advance)

\* a running pass is at a place where the guard of one of its steps holds
NeverStuck ==
    Running =>
        \/ pc.phase = "start"
        \/ pc.phase = "standard" /\ pc.i <= mesh.nv
        \/ pc.phase = "aggressive" /\ pc.i <= num_triangles(mesh)

\* every step of the pass moves pc
EveryStepMoves == [][pc' # pc /\ pc' \in PcSpace]_vars

\* the pass returned: it was notified once if an observer is registered, and no
\* vertex had more than one call
ReturnedOnce ==
    pc.phase = "returned" =>
        /\ notified = (IF cfg.m_mesheventcallback THEN 1 ELSE 0)
        /\ \A v \in Vertices : called[v] <= 1

\* the observer is notified by the step that returns, and no position changes
\* after the pass returned
NotifiedLast ==
    /\ notified' # notified => pc'.phase = "returned"
    /\ pc.phase = "returned" => position' = position /\ notified' = notified

\* C11, as stated: for every mesh and configuration the pass runs to
\* completion (it returns), whatever was skipped, capped or rejected.
PassCompletes_AsStated == <>(pc.phase = "returned")

\* C11, amended: a pass either stops inside the dihedral-aware policy because the
\* eigen-decomposition failed, or it returns; when it returns, no vertex had
\* more than one call and the observer (when registered) was notified exactly
\* once, by the last step of the pass, after every position update.
PassCompletes ==
    /\ <>(pc.phase \in {"returned", "aborted"})
    /\ [](pc.phase = "aborted" =>
             last.policy = "dihedral" /\ last.outcome = "abort" /\ notified = 0)
    /\ []ReturnedOnce
    /\ [][NotifiedLast]_vars

\* a pass that had a rejected move and a committed one returned and notified
PassCompletes_Witness ==
    /\ pc.phase = "returned"
    /\ notified = 1
    /\ \E v \in Vertices : called[v] = 1 /\ position[v] # position0[v]
    /\ \E v \in Vertices : called[v] = 1 /\ position[v] = position0[v] /\ ~OnBoundary(v)

\* the direction of the combined (Jiao) normal at v, from the caches
JiaoNormal(v) ==
    JiaoDirection(EigenSolver(Quadric(IncidentTriangles(v), triangle_areas,
                                      triangle_normals)),
                  JiaoB(IncidentTriangles(v), triangle_areas, triangle_normals))

\* d is orthogonal to the direction D up to the rounding of d's components
\* (half a unit each)
OrthogonalWithinTolerance(d, D) ==
    /\ ~IsNaN3(d)
    /\ 2 * Abs(dot(d, D)) <= Abs(D[0]) + Abs(D[1]) + Abs(D[2])

\* C12: for a vertex with zero feature edges handled by the dihedral-aware
\* policy, the displacement the policy returns is orthogonal to the combined
\* normal built from the range-space eigenpairs of the quadric, within
\* tolerance.
TangentialDisplacement ==
    [][\A v \in Vertices :
          /\ CallOn(v)
          /\ last'.policy = "dihedral"
          /\ last'.outcome # "abort"
          /\ last'.feature_edge_count = 0
          => OrthogonalWithinTolerance(last'.computed, JiaoNormal(v))]_vars

\* the dihedral-aware policy returned a non-zero displacement for a vertex
\* without feature edges whose triangles are not in one plane
TangentialDisplacement_Witness ==
    /\ last.policy = "dihedral"
    /\ last.feature_edge_count = 0
    /\ last.computed # Zero3
    /\ \E t1, t2 \in TrianglesAt(last.v) : triangle_normals[t1] # triangle_normals[t2]


\* C13: the call decides in the order deleted vertex, boundary edge, no bad
\* angle, aggressive mode, fold or dihedral-aware policy.  The call on a deleted
\* vertex writes nothing: displacements, committed and staged positions and
\* caches stay as they were, whatever its edges and angles.  The call on a
\* vertex with a boundary edge reports zero and moves nothing, in aggressive
\* mode too and whatever its angles.  An interior vertex without a bad angle
\* gets no policy; one with a bad angle gets the naive policy in aggressive
\* mode and the region or the dihedral-aware policy otherwise.
PriorityOrder ==
    [][\A v \in Vertices :
          CallOn(v) =>
            /\ deleted[v] =>
                  /\ last'.outcome = "deleted"
                  /\ displacements' = displacements
                  /\ position' = position
                  /\ newposition' = newposition
                  /\ CachesUnchanged
            /\ ~deleted[v] /\ OnBoundary(v) =>
                  last'.outcome = "boundary" /\ ZeroAndUnmoved(v)
            /\ ~deleted[v] /\ ~OnBoundary(v) /\ ~HasBadAngle(v, position) =>
                  last'.policy = "none" /\ ZeroAndUnmoved(v)
            /\ ~deleted[v] /\ ~OnBoundary(v) /\ HasBadAngle(v, position) =>
                  IF cfg.m_aggressive_mode THEN last'.policy = "naive"
                  ELSE last'.policy \in {"region", "dihedral"}]_vars

\* an aggressive pass called a deleted interior vertex that has a bad angle and
\* a boundary vertex that has a bad angle
PriorityOrder_Witness ==
    /\ cfg.m_aggressive_mode
    /\ \E v \in Vertices :
          /\ deleted[v] /\ called[v] = 1
          /\ ~OnBoundary(v) /\ HasBadAngle(v, position)
    /\ \E u \in Vertices :
          /\ ~deleted[u] /\ called[u] = 1
          /\ OnBoundary(u) /\ HasBadAngle(u, position)

\* the cosine is a number below the configured minimum or above the configured
\* maximum cosine
OutsideConfiguredBounds(c) ==
    /\ c.den > 0
    /\ \/ c.num * cfg.m_min_angle_cosine.den < cfg.m_min_angle_cosine.num * c.den
       \/ c.num * cfg.m_max_angle_cosine.den > cfg.m_max_angle_cosine.num * c.den

\* triangle t has an interior angle outside the configured bounds
BadAgainstConfigured(t, pos) ==
    \E k \in Axes : OutsideConfiguredBounds(TriangleCosines(pos, t)[k])

\* C14: in aggressive mode every call of a pass is the first call on its
\* vertex, the vertex is not fully constrained and is a vertex of the triangle
\* the pass is at; and the pass stays at a triangle to call its vertices only
\* if the triangle had an interior angle outside the configured cosine bounds
\* when the pass came to it.
AggressiveOncePerVertex ==
    [][cfg.m_aggressive_mode =>
          /\ \A v \in Vertices :
                CallOn(v) =>
                  /\ called'[v] = 1
                  /\ ~(solid[v][0] /\ solid[v][1] /\ solid[v][2])
                  /\ pc.phase = "aggressive" /\ pc.scanned
                  /\ v \in TriVerts(mesh.m_tris[pc.i])
          /\ pc'.scanned /\ ~pc.scanned =>
                pc'.i = pc.i /\ BadAgainstConfigured(pc.i, position)
          /\ pc'.scanned /\ pc.scanned => pc'.i = pc.i]_vars

\* the aggressive pass is at a vertex of a later bad triangle; the vertex was
\* called once, in an earlier triangle, and its move was rejected or capped
AggressiveOncePerVertex_Witness ==
    /\ cfg.m_aggressive_mode
    /\ pc.phase = "aggressive" /\ pc.scanned
    /\ AllDistinct(mesh.m_tris[pc.i])
    /\ last.v = mesh.m_tris[pc.i][pc.j]
    /\ called[last.v] = 1
    /\ last.outcome \in {"collision", "huge"}
    /\ last.masked # Zero3

\* solid along all three axes
FullyConstrained(v) == solid[v][0] /\ solid[v][1] /\ solid[v][2]

\* C15: in standard mode, when the pass calls v it has called every vertex up
\* to v that is not fully constrained exactly once and no other vertex, so that
\* the calls come in increasing index order; a pass that returns has called
\* every vertex that is not fully constrained exactly once; a fully constrained
\* vertex is never called and keeps its position.
StandardOncePerVertex ==
    /\ [](~cfg.m_aggressive_mode =>
            \A v \in Vertices :
                /\ FullyConstrained(v) => called[v] = 0 /\ position[v] = position0[v]
                /\ pc.phase = "returned" /\ ~FullyConstrained(v) => called[v] = 1)
    /\ [][~cfg.m_aggressive_mode =>
            \A v \in Vertices :
                CallOn(v) =>
                    \A u \in Vertices :
                        called'[u] = IF u <= v /\ ~FullyConstrained(u) THEN 1 ELSE 0]_vars

\* a standard pass returned: it called the vertices before and after a fully
\* constrained interior vertex that has a bad angle, and passed that one over
StandardOncePerVertex_Witness ==
    /\ ~cfg.m_aggressive_mode
    /\ pc.phase = "returned"
    /\ \E v \in Vertices :
          /\ FullyConstrained(v) /\ ~OnBoundary(v) /\ HasBadAngle(v, position0)
          /\ called[v] = 0
          /\ \A u \in Vertices \ {v} : called[u] = 1

\* C16: a call whose policy decomposes the quadric of the vertex and whose
\* decomposition fails stops the process: it computes no displacement and
\* writes no displacement, position or cache entry.  This is so for the
\* dihedral-aware policy and for the region-restricted null-space policy.
EigenFailureAborts ==
    [][\A v \in Vertices :
          CallOn(v) /\ last'.eigen_info = "NoConvergence" =>
            /\ last'.outcome = "abort"
            /\ pc'.phase = "aborted"
            /\ displacements' = displacements
            /\ position' = position
            /\ newposition' = newposition
            /\ CachesUnchanged]_vars

\* pi minus the angle between the cached normals of two triangles is below the
\* fold threshold
FoldedPair(n0, n1) ==
    /\ ~IsNaN3(n0) /\ ~IsNaN3(n1)
    /\ \E c \in {Cosine(Sign(dot(n0, n1)) * dot(n0, n1) * dot(n0, n1),
                        NScale * NScale * NScale * NScale)} :
          -c.num * cfg.m_sharp_fold_regularization_threshold.den
              > cfg.m_sharp_fold_regularization_threshold.num * c.den

\* (a): some edge at v has two triangles folded onto each other
FoldedAt(v) ==
    \E t0, t1 \in TrianglesAt(v) :
        /\ t0 # t1
        /\ \E u \in Vertices \ {v} :
              {u, v} \subseteq TriVerts(mesh.m_tris[t0]) \cap TriVerts(mesh.m_tris[t1])
        /\ FoldedPair(triangle_normals[t0], triangle_normals[t1])

\* the triangles on the edge from v to u that carry the label of the region
RegionSide(v, u, region) ==
    {t \in TrianglesAt(v) :
        u \in TriVerts(mesh.m_tris[t]) /\ region \in Range(mesh.m_labels[t])}

\* the normal of triangle t, pointing into the region
NormalInto(t, region) ==
    IF mesh.m_labels[t][0] = region
    THEN get_triangle_normal(position, mesh.m_tris[t])
    ELSE VScale(-1, get_triangle_normal(position, mesh.m_tris[t]))

\* (b) for one region: on an edge at v with at most 3 triangles the region has
\* two triangles, and pi minus the angle between their normals, seen from the
\* region, is below the fold threshold
FoldedRegionAt(v, region) ==
    \E u \in Vertices \ {v} :
        /\ Cardinality({t \in TrianglesAt(v) : u \in TriVerts(mesh.m_tris[t])}) \in 1 .. 3
        /\ Cardinality(RegionSide(v, u, region)) = 2
        /\ \E t0, t1 \in RegionSide(v, u, region) :
              /\ t0 # t1
              /\ ~IsNaN3(get_triangle_normal(position, mesh.m_tris[t0]))
              /\ ~IsNaN3(get_triangle_normal(position, mesh.m_tris[t1]))
              /\ FoldedPair(NormalInto(t0, region), NormalInto(t1, region))

\* the region labels of the triangles at v
RegionsAt(v) == UNION {Range(mesh.m_labels[t]) : t \in TrianglesAt(v)}

\* C17: a call in standard mode that reaches the policy choice uses the
\* region-restricted policy if and only if (a) some edge at v has pi minus its
\* largest dihedral angle below the fold threshold and (b) some region at v has,
\* on an edge at v with at most 3 triangles, pi minus its dihedral angle below
\* the threshold; otherwise it uses the dihedral-aware policy.  The triangles
\* handed to the region policy are the triangles at v that carry the label of
\* one such region, and there is at least one.
RegionPolicyOnFold ==
    [][\A v \in Vertices :
          CallOn(v) /\ last'.policy \in {"region", "dihedral"} =>
            /\ last'.policy = "region" <=>
                  FoldedAt(v) /\ \E region \in RegionsAt(v) : FoldedRegionAt(v, region)
            /\ last'.policy = "region" =>
                  /\ last'.triangles # << >>
                  /\ \E region \in RegionsAt(v) :
                        /\ FoldedRegionAt(v, region)
                        /\ Range(last'.triangles) =
                              {t \in TrianglesAt(v) : region \in Range(mesh.m_labels[t])}]_vars

\* the cache entries of every triangle outside the set ts are unchanged
CachesUnchangedOutside(ts) ==
    \A t \in Triangles \ ts :
        /\ triangle_areas'[t] = triangle_areas[t]
        /\ triangle_normals'[t] = triangle_normals[t]
        /\ triangle_centroids'[t] = triangle_centroids[t]

\* C18: a call null_space_smooth_vertex(v) changes at most the committed and
\* the staged position of v and the cache entries of the triangles incident to
\* v: every other vertex keeps both positions, every triangle not incident to
\* v keeps its cache entries, and connectivity, labels, deletion flags and
\* solidity flags are unchanged.
CallFrame ==
    [][\A v \in Vertices :
          CallOn(v) =>
            /\ \A u \in Vertices \ {v} :
                  position'[u] = position[u] /\ newposition'[u] = newposition[u]
            /\ CachesUnchangedOutside(TrianglesAt(v))
            /\ mesh' = mesh
            /\ deleted' = deleted
            /\ solid' = solid]_vars

\* the first call of a pass committed a move of its vertex and refreshed a
\* cache entry at it, on a mesh with a triangle away from the vertex and with
\* another vertex whose staged position is not its committed one
CallFrame_Witness ==
    /\ ncalls = 1
    /\ last.outcome = "commit"
    /\ position[last.v] # position0[last.v]
    /\ newposition[last.v] = position[last.v]
    /\ \E t \in TrianglesAt(last.v) :
          triangle_centroids[t] # CachedCentroid(position0, mesh.m_tris[t])
    /\ Triangles \ TrianglesAt(last.v) # {}
    /\ \E u \in Vertices \ {last.v} : newposition[u] # position[u]

\* C19: when the pass has returned, the displacement recorded for every vertex
\* is its committed position after the pass minus its committed position
\* before the pass; it is zero for every vertex that did not move.
DisplacementsAreMoves ==
    pc.phase = "returned" =>
        \A v \in Vertices :
            /\ displacements[v] = VSub(position[v], position0[v])
            /\ position[v] = position0[v] => displacements[v] = Zero3

\* a pass has returned after it moved a vertex, called a deleted vertex and
\* ended a call on an interior vertex that is not deleted without a move
DisplacementsAreMoves_Witness ==
    /\ pc.phase = "returned"
    /\ \E v \in Vertices : position[v] # position0[v] /\ displacements[v] # Zero3
    /\ \E v \in Vertices : deleted[v] /\ called[v] = 1
    /\ \E v \in Vertices :
          /\ called[v] = 1
          /\ ~deleted[v]
          /\ ~HasBoundaryEdge(v)
          /\ position[v] = position0[v]

\* C20: if the staged position of every vertex is its committed position
\* before a step of the pass, it is so after the step: once a pass starts
\* with the two equal they are equal after every call, whether it committed,
\* was rejected, was capped or returned early, with collision safety on or
\* off, and when the pass ends.
StagedIsCommitted ==
    [][newposition = position => newposition' = position']_vars

\* a pass that started with the staged positions equal to the committed ones
\* (the last vertex has not been called and is staged where it is committed)
\* has committed a move and has just had a move rejected by the collision
\* check, and the staged positions equal the committed ones
StagedIsCommitted_Witness ==
    /\ newposition = position
    /\ called[mesh.nv - 1] = 0
    /\ \E v \in Vertices : position[v] # position0[v]
    /\ last.outcome = "collision"
    /\ last.masked # Zero3

\* the call on v runs the fold analysis of lines 296-341
RunsFoldAnalysis(v) ==
    /\ CallOn(v)
    /\ last'.policy \in {"region", "dihedral"}
    /\ RegularizeFoldedFeature(v, triangle_normals)

\* C21: in the fold analysis of a call, every (edge at v with at most 3
\* triangles, region at v) pair whose angle is computed has exactly two
\* triangles of the edge labelled with the region, so that both entries of
\* normal_pair are written before they are read and nothing is written past it.
NormalPairWritten ==
    [][\A v \in Vertices :
          RunsFoldAnalysis(v) =>
              \A k \in DOMAIN FoldPairs(v) :
                  Len(RegionTrianglesOfEdge(FoldPairs(v)[k].edge,
                                            FoldPairs(v)[k].region)) = 2]_vars

====
